---- MODULE Spec2Model ----
(***************************************************************************)
(* The fraud scoring engine of src/ai/fraud_detection.py as a state        *)
(* machine: construction of the module-level FraudDetectionEngine          *)
(* (load_or_train_model), the wall clock read by extract_features,         *)
(* predict_fraud calls made through analyze_transaction, and the engine's  *)
(* other public methods (train_model, load_or_train_model,                 *)
(* generate_synthetic_data, the construction of a further engine) called   *)
(* while it serves.                                                        *)
(*                                                                         *)
(* Numbers.  A Python float is an IEEE 754 double, held exactly as sign,   *)
(* odd significand and binary exponent, with infinities and NaN; sums,     *)
(* differences, comparisons, float(str) and the two round(x, 3) of the     *)
(* source (the builtin's on a float, numpy's on a float64) are computed    *)
(* on that representation as the interpreter computes them.  Where a       *)
(* double is the one nearest to a short decimal (a drawn sub-score, a      *)
(* member probability, a score rounded to three decimals) it is held as    *)
(* that decimal, a rational [num, den] in lowest terms; ToDouble gives     *)
(* its double.  History fields are ints.                                   *)
(*                                                                         *)
(* A str is the sequence of its code points.                               *)
(*                                                                         *)
(* Not modelled: the values of the fitted scaler and classifiers (their    *)
(* outputs are a nondeterministic choice), the conversion of the scaled    *)
(* row to float32 inside the tree models, processingTime and timestamp of  *)
(* the result, logging.  The module-level generator is held as its         *)
(* position in its stream, modulo RngPeriod.                               *)
(***************************************************************************)
EXTENDS Integers, Sequences, FiniteSets, TLC

VARIABLES
    disk,             \* models/fraud_detection_model.pkl and its directory
    phase,            \* "init" | "serving" | "failed": the module-level construction
    model,            \* self.model
    scaler,           \* self.scaler
    feature_columns,  \* self.feature_columns
    now,              \* the wall clock datetime.now() reads
    ticks,            \* hour boundaries crossed so far (bounded by MaxTicks)
    rng,              \* the state of numpy's module-level generator np.random
    calls,            \* per caller: the frame of its predict_fraud call
    admin             \* the frame of a call of another public method

vars == <<disk, phase, model, scaler, feature_columns, now, ticks, rng, calls, admin>>

\* Bounds of the model.
MaxTicks == 1
ProbRadius == 1
\* The generator's states, as positions of a cycle of this length.
RngPeriod == 3
\* Calls of the other public methods.
MaxAdminCalls == 1

Callers == {"c1", "c2"}

-----------------------------------------------------------------------------
(* Python values *)

\* None, as a record so that it compares with dicts.
None == [isNone |-> TRUE]

\* {}
EmptyDict == [k \in {} |-> 0]

\* d.get(k, dflt)
Get(d, k, dflt) == IF k \in DOMAIN d THEN d[k] ELSE dflt

\* bool(d) of an optional dict: None and {} are falsy.
Truthy(d) == d # None /\ DOMAIN d # {}

RECURSIVE GCD(_, _)
GCD(a, b) == IF b = 0 THEN a ELSE GCD(b, a % b)

\* The decimal n/d (d > 0, n >= 0) in lowest terms.
Rat(n, d) == LET g == GCD(n, d) IN [num |-> n \div g, den |-> d \div g]

-----------------------------------------------------------------------------
(* Naturals of any size.  TLC's integers are 32 bits wide, a double's      *)
(* significand is 53: a natural is the little-endian sequence of its       *)
(* base-2^15 limbs, without a leading zero limb (zero is <<>>).            *)

Base == 2^15

Min(a, b) == IF a < b THEN a ELSE b

Max(a, b) == IF a < b THEN b ELSE a

\* a without its leading zero limbs
BnNorm(a) ==
    LET n == CHOOSE i \in 0..Len(a) :
                 /\ i = 0 \/ a[i] # 0
                 /\ \A k \in (i + 1)..Len(a) : a[k] = 0
    IN  SubSeq(a, 1, n)

RECURSIVE BnFromInt(_)
BnFromInt(n) ==
    IF n = 0 THEN <<>> ELSE <<n % Base>> \o BnFromInt(n \div Base)

\* The value of a natural below 2^31.
RECURSIVE BnToInt(_)
BnToInt(a) == IF a = <<>> THEN 0 ELSE a[1] + Base * BnToInt(Tail(a))

BnLimb(a, i) == IF i <= Len(a) THEN a[i] ELSE 0

\* a + b.  The carry into limb i is 1 when some lower limb sum overflows and
\* every limb sum between it and i is Base - 1.
BnAdd(a, b) ==
    LET n == Max(Len(a), Len(b))
        s == [i \in 1..n |-> BnLimb(a, i) + BnLimb(b, i)]
        carry == [i \in 1..(n + 1) |->
                     IF \E j \in 1..(i - 1) :
                            /\ s[j] >= Base
                            /\ \A k \in (j + 1)..(i - 1) : s[k] = Base - 1
                     THEN 1 ELSE 0]
    IN  BnNorm([i \in 1..(n + 1) |->
                   IF i <= n THEN (s[i] + carry[i]) % Base ELSE carry[i]])

\* a - b, for a >= b.  The borrow from limb i is 1 when some lower limb
\* difference is negative and every one between it and i is 0.
BnSub(a, b) ==
    LET d == [i \in 1..Len(a) |-> a[i] - BnLimb(b, i)]
        borrow == [i \in 1..Len(a) |->
                      IF \E j \in 1..(i - 1) :
                             /\ d[j] < 0
                             /\ \A k \in (j + 1)..(i - 1) : d[k] = 0
                      THEN 1 ELSE 0]
    IN  BnNorm([i \in 1..Len(a) |-> (d[i] - borrow[i] + Base) % Base])

\* -1, 0 or 1 as a is below, equal to or above b
BnCmp(a, b) ==
    IF Len(a) # Len(b) THEN (IF Len(a) < Len(b) THEN -1 ELSE 1)
    ELSE IF a = b THEN 0
    ELSE LET i == CHOOSE j \in 1..Len(a) :
                      /\ a[j] # b[j]
                      /\ \A k \in (j + 1)..Len(a) : a[k] = b[k]
         IN  IF a[i] < b[i] THEN -1 ELSE 1

\* a * m, for 0 <= m <= Base: the low halves of the limb products plus
\* their high halves one limb up
BnMulSmall(a, m) ==
    BnAdd([i \in 1..Len(a) |-> (a[i] * m) % Base],
          [i \in 1..(Len(a) + 1) |-> IF i = 1 THEN 0 ELSE (a[i - 1] * m) \div Base])

\* The long division of a by d from limb i down, r the remainder and q the
\* quotient so far.  (The test on Len(q2) is never true: it has q2 computed
\* before the next step; so do the like tests of the loops below.)
RECURSIVE BnDivAt(_, _, _, _, _)
BnDivAt(a, d, i, r, q) ==
    IF i = 0 THEN [q |-> BnNorm(q), r |-> r]
    ELSE LET t == r * Base + a[i]
             q2 == <<t \div d>> \o q
         IN  IF Len(q2) = 0 THEN [q |-> <<>>, r |-> 0]
             ELSE BnDivAt(a, d, i - 1, t % d, q2)

\* quotient and remainder (an integer) of a by d, for 0 < d <= Base
BnDivSmall(a, d) == BnDivAt(a, d, Len(a), 0, <<>>)

\* a * 2^k
BnShl(a, k) ==
    IF a = <<>> THEN <<>>
    ELSE [i \in 1..(k \div 15) |-> 0] \o BnMulSmall(a, 2^(k % 15))

\* a \div 2^k
BnShr(a, k) ==
    LET w == k \div 15
        r == k % 15
    IN  IF w >= Len(a) THEN <<>>
        ELSE BnNorm([i \in 1..(Len(a) - w) |->
                        a[i + w] \div 2^r
                          + (BnLimb(a, i + w + 1) % 2^r) * 2^(15 - r)])

\* the number of bits of a
BnBitLen(a) ==
    IF a = <<>> THEN 0
    ELSE 15 * (Len(a) - 1)
           + (CHOOSE j \in 1..15 : 2^(j - 1) <= a[Len(a)] /\ a[Len(a)] < 2^j)

\* bit k of a (bit 0 is the lowest)
BnBit(a, k) == (BnLimb(a, k \div 15 + 1) \div 2^(k % 15)) % 2

\* a is a multiple of 2^k
BnLowZero(a, k) ==
    /\ \A i \in 1..Min(k \div 15, Len(a)) : a[i] = 0
    /\ BnLimb(a, k \div 15 + 1) % 2^(k % 15) = 0

\* the number of zero bits below the lowest set bit of a # 0
BnTrailingZeros(a) ==
    LET i == CHOOSE j \in 1..Len(a) : a[j] # 0 /\ \A k \in 1..(j - 1) : a[k] = 0
    IN  15 * (i - 1) + (CHOOSE j \in 0..14 : a[i] % 2^(j + 1) # 0)

\* The binary long division of n by t from bit i down, r the remainder and
\* q the quotient so far.
RECURSIVE BnDivLoop(_, _, _, _, _)
BnDivLoop(n, t, i, r, q) ==
    IF i < 0 THEN [q |-> q, r |-> r]
    ELSE LET r2 == BnMulSmall(r, 2)
             r3 == IF BnBit(n, i) = 0 THEN r2
                   ELSE IF r2 = <<>> THEN <<1>>
                   ELSE [r2 EXCEPT ![1] = @ + 1]
             q2 == BnMulSmall(q, 2)
             q3 == IF q2 = <<>> THEN <<1>> ELSE [q2 EXCEPT ![1] = @ + 1]
             r4 == BnSub(r3, t)
         IN  IF BnCmp(r3, t) >= 0
             THEN IF Len(q3) + Len(r4) < 0 THEN [q |-> q, r |-> r]
                  ELSE BnDivLoop(n, t, i - 1, r4, q3)
             ELSE IF Len(q2) < 0 THEN [q |-> q, r |-> r]
                  ELSE BnDivLoop(n, t, i - 1, r3, q2)

\* quotient and remainder (a natural) of n by t # 0
BnDivMod(n, t) ==
    IF Len(t) = 1
    THEN LET d == BnDivSmall(n, t[1]) IN [q |-> d.q, r |-> BnFromInt(d.r)]
    ELSE LET k == BnBitLen(n) - BnBitLen(t)
         IN  IF k < 0 THEN [q |-> <<>>, r |-> n]
             ELSE BnDivLoop(n, t, k, BnShr(n, k + 1), <<>>)

\* a * 10^k
RECURSIVE BnMulPow10(_, _)
BnMulPow10(a, k) ==
    LET b == BnMulSmall(a, IF k >= 4 THEN 10000 ELSE 10)
    IN  IF k = 0 \/ b = <<>> THEN a
        ELSE BnMulPow10(b, IF k >= 4 THEN k - 4 ELSE k - 1)

-----------------------------------------------------------------------------
(* Python floats: IEEE 754 doubles.  A finite double is (-1)^neg * m * 2^e *)
(* with m odd, or m = 0 and e = 0; m is held as a natural.                 *)

Finite(neg, m, e) ==
    IF m = <<>> THEN [kind |-> "finite", neg |-> neg, m |-> <<>>, e |-> 0]
    ELSE LET tz == BnTrailingZeros(m)
         IN  [kind |-> "finite", neg |-> neg, m |-> BnShr(m, tz), e |-> e + tz]

Inf(neg) == [kind |-> "inf", neg |-> neg, m |-> <<>>, e |-> 0]

NaN == [kind |-> "nan", neg |-> FALSE, m |-> <<>>, e |-> 0]

\* The double nearest to n * 2^e (plus, when sticky, a positive amount below
\* 2^e), a tie to the even significand: 53 bits, fewer below 2^-1022,
\* infinity from 2^1024.
RoundToDouble(neg, n, e, sticky) ==
    LET c == Max(e + BnBitLen(n) - 53, -1074)
        sh == c - e
        q == BnShr(n, sh)
        up == /\ BnBit(n, sh - 1) = 1
              /\ \/ sticky
                 \/ ~BnLowZero(n, sh - 1)
                 \/ BnBit(n, sh) = 1
        q2 == IF up THEN BnAdd(q, <<1>>) ELSE q
    IN  IF c <= e
        THEN IF BnBitLen(n) + e > 1024 THEN Inf(neg) ELSE Finite(neg, n, e)
        ELSE IF BnBitLen(q2) + c > 1024 THEN Inf(neg) ELSE Finite(neg, q2, c)

\* The double nearest to d / t, for naturals d and t # 0.
FromRatio(neg, d, t) ==
    IF d = <<>> THEN Finite(neg, <<>>, 0)
    ELSE LET s == Max(0, BnBitLen(t) - BnBitLen(d) + 56)
             qr == BnDivMod(BnShl(d, s), t)
         IN  RoundToDouble(neg, qr.q, -s, qr.r # <<>>)

\* The double nearest to d * 10^x, as strtod reads a decimal numeral: beyond
\* 10^310 it is infinite, below 2^-1080 zero.
FromDecimal(neg, d, x) ==
    IF d = <<>> THEN Finite(neg, <<>>, 0)
    ELSE IF x >= 0
    THEN IF x > 310 THEN Inf(neg)
         ELSE RoundToDouble(neg, BnMulPow10(d, x), 0, FALSE)
    ELSE IF BnBitLen(d) + 3 * x < -1080 THEN Finite(neg, <<>>, 0)
    ELSE FromRatio(neg, d, BnMulPow10(<<1>>, -x))

\* float(n) of an int
FromInt(n) ==
    IF n < 0 THEN Finite(TRUE, BnFromInt(-n), 0)
    ELSE Finite(FALSE, BnFromInt(n), 0)

\* The double a decimal n/d denotes, written in the source or drawn: the one
\* nearest to the rational r.
ToDouble(r) == FromRatio(FALSE, BnFromInt(r.num), BnFromInt(r.den))

\* The sum of two finite doubles, correctly rounded; an exact zero sum of
\* opposite signs is +0.0.
AddFinite(x, y) ==
    LET e0 == Min(x.e, y.e)
        a == BnShl(x.m, x.e - e0)
        b == BnShl(y.m, y.e - e0)
        c == BnCmp(a, b)
    IN  IF x.m = <<>> /\ y.m = <<>> THEN Finite(x.neg /\ y.neg, <<>>, 0)
        ELSE IF y.m = <<>> THEN x
        ELSE IF x.m = <<>> THEN y
        ELSE IF x.neg = y.neg THEN RoundToDouble(x.neg, BnAdd(a, b), e0, FALSE)
        ELSE IF c = 0 THEN Finite(FALSE, <<>>, 0)
        ELSE IF c > 0 THEN RoundToDouble(x.neg, BnSub(a, b), e0, FALSE)
        ELSE RoundToDouble(y.neg, BnSub(b, a), e0, FALSE)

\* x + y
FAdd(x, y) ==
    IF x.kind = "nan" \/ y.kind = "nan" THEN NaN
    ELSE IF x.kind = "inf"
    THEN IF y.kind = "inf" /\ y.neg # x.neg THEN NaN ELSE x
    ELSE IF y.kind = "inf" THEN y
    ELSE AddFinite(x, y)

\* -x
FNeg(x) == IF x.kind = "nan" THEN x ELSE [x EXCEPT !.neg = ~@]

\* x - y
FSub(x, y) == FAdd(x, FNeg(y))

\* abs(x)
FAbs(x) == [x EXCEPT !.neg = FALSE]

\* x / 2
FHalf(x) ==
    IF x.kind # "finite" \/ x.m = <<>> THEN x
    ELSE RoundToDouble(x.neg, x.m, x.e - 1, FALSE)

\* x < y
FLess(x, y) ==
    IF x.kind = "nan" \/ y.kind = "nan" THEN FALSE
    ELSE IF x = y THEN FALSE
    ELSE IF x.kind = "inf" THEN x.neg
    ELSE IF y.kind = "inf" THEN ~y.neg
    ELSE IF x.m = <<>> /\ y.m = <<>> THEN FALSE
    ELSE IF x.m = <<>> THEN ~y.neg
    ELSE IF y.m = <<>> THEN x.neg
    ELSE IF x.neg # y.neg THEN x.neg
    ELSE LET e0 == Min(x.e, y.e)
             c == BnCmp(BnShl(x.m, x.e - e0), BnShl(y.m, y.e - e0))
         IN  IF x.neg THEN c > 0 ELSE c < 0

\* max(x, y): y when x < y, else x
FMax(x, y) == IF FLess(x, y) THEN y ELSE x

\* The integer nearest to n / 2^sh, a tie to the even one.
RintShift(n, sh) ==
    IF sh <= 0 THEN BnShl(n, -sh)
    ELSE LET q == BnShr(n, sh)
             up == /\ BnBit(n, sh - 1) = 1
                   /\ \/ ~BnLowZero(n, sh - 1)
                      \/ BnBit(n, sh) = 1
         IN  IF up THEN BnAdd(q, <<1>>) ELSE q

\* round(x, 3) of a Python float x in [0, 1]: the thousandth nearest to the
\* exact value of x, a tie to the even one, as the count of thousandths.
py_round3(x) == BnToInt(RintShift(BnMulSmall(x.m, 1000), -x.e))

\* round(x, 3) of a numpy float64 x in [0, 1]: rint(x * 1000) / 1000, the
\* product rounded to a double first, as the count of thousandths.
np_round3(x) ==
    LET y == RoundToDouble(FALSE, BnMulSmall(x.m, 1000), x.e, FALSE)
    IN  BnToInt(RintShift(y.m, -y.e))

-----------------------------------------------------------------------------
(* str: the sequence of its code points.  float(str).                      *)

Str(codes) == [text |-> codes]

\* The code points with decimal digit value 0 beyond ASCII; each begins a run
\* of the ten digits of a script (Unicode 14, category Nd).
DecimalZeros ==
    { 1632, 1776, 1984, 2406, 2534, 2662, 2790, 2918, 3046, 3174,
      3302, 3430, 3558, 3664, 3792, 3872, 4160, 4240, 6112, 6160,
      6470, 6608, 6784, 6800, 6992, 7088, 7232, 7248, 42528, 43216,
      43264, 43472, 43504, 43600, 44016, 65296, 66720, 68912, 69734,
      69872, 69942, 70096, 70384, 70736, 70864, 71248, 71360, 71472,
      71904, 72016, 72784, 73040, 73120, 92768, 92864, 93008, 120782,
      120792, 120802, 120812, 120822, 123200, 123632, 125264, 130032 }

\* The whitespace beyond ASCII (str.isspace).
UnicodeSpaces ==
    {133, 160, 5760} \cup (8192..8202) \cup {8232, 8233, 8239, 8287, 12288}

\* The whitespace float() strips: tab, newline, vertical tab, form feed,
\* carriage return, space.
AsciiSpaces == {9, 10, 11, 12, 13, 32}

\* The decimal digit value of a code point, -1 when it has none.
DigitValue(ch) ==
    IF 48 <= ch /\ ch <= 57 THEN ch - 48
    ELSE IF \E z \in DecimalZeros : z <= ch /\ ch <= z + 9
    THEN ch - (CHOOSE z \in DecimalZeros : z <= ch /\ ch <= z + 9)
    ELSE -1

IsDigit(ch) == DigitValue(ch) >= 0

\* What float() makes of a str before it parses: a decimal digit of any
\* script becomes its ASCII digit, whitespace beyond ASCII a space, any other
\* code point beyond ASCII a '?'.
TransformDecimalAndSpaceToASCII(s) ==
    [i \in 1..Len(s) |->
        IF s[i] < 128 THEN s[i]
        ELSE IF s[i] \in UnicodeSpaces THEN 32
        ELSE IF IsDigit(s[i]) THEN 48 + DigitValue(s[i])
        ELSE 63]

\* s without leading and trailing whitespace
Strip(s) ==
    LET kept == {i \in 1..Len(s) : s[i] \notin AsciiSpaces}
    IN  IF kept = {} THEN <<>>
        ELSE SubSeq(s, CHOOSE i \in kept : \A j \in kept : i <= j,
                       CHOOSE i \in kept : \A j \in kept : j <= i)

\* Every '_' of s stands between two digits.
UnderscoresBetweenDigits(s) ==
    \A i \in 1..Len(s) :
        s[i] = 95 => /\ 1 < i /\ i < Len(s)
                     /\ 48 <= s[i - 1] /\ s[i - 1] <= 57
                     /\ 48 <= s[i + 1] /\ s[i + 1] <= 57

NotUnderscore(ch) == ch # 95

\* s in lower case (ASCII)
Lower(s) == [i \in 1..Len(s) |-> IF 65 <= s[i] /\ s[i] <= 90 THEN s[i] + 32 ELSE s[i]]

\* The position of the first code point of s in set, 0 when there is none.
Find(s, set) ==
    IF \E i \in 1..Len(s) : s[i] \in set
    THEN CHOOSE i \in 1..Len(s) : s[i] \in set /\ \A j \in 1..(i - 1) : s[j] \notin set
    ELSE 0

AllDigits(s) == \A i \in 1..Len(s) : 48 <= s[i] /\ s[i] <= 57

\* The parts of a numeral without sign: the digits before and after the
\* decimal point, and the exponent with its sign.
NumeralParts(body) ==
    LET e == Find(body, {69, 101})
        mant == IF e = 0 THEN body ELSE SubSeq(body, 1, e - 1)
        ex == IF e = 0 THEN <<>> ELSE SubSeq(body, e + 1, Len(body))
        dot == Find(mant, {46})
        signed == ex # <<>> /\ ex[1] \in {43, 45}
    IN  [int |-> IF dot = 0 THEN mant ELSE SubSeq(mant, 1, dot - 1),
         frac |-> IF dot = 0 THEN <<>> ELSE SubSeq(mant, dot + 1, Len(mant)),
         has_exp |-> e # 0,
         exp_neg |-> signed /\ ex[1] = 45,
         exp |-> IF signed THEN Tail(ex) ELSE ex]

\* digits* [. digits*] with a digit somewhere, then optionally e or E, a
\* sign and digits+
IsDecimalNumeral(body) ==
    LET p == NumeralParts(body)
    IN  /\ AllDigits(p.int) /\ AllDigits(p.frac)
        /\ Len(p.int) + Len(p.frac) > 0
        /\ AllDigits(p.exp)
        /\ p.has_exp => p.exp # <<>>

\* s after float()'s transformation, stripped, and without the underscores
\* between its digits
Prepared(s) == SelectSeq(Strip(TransformDecimalAndSpaceToASCII(s)), NotUnderscore)

\* s without an optional leading sign
Unsigned(s) == IF s # <<>> /\ s[1] \in {43, 45} THEN Tail(s) ELSE s

\* 'inf', 'infinity' or 'nan' in any case
IsInfinity(body) ==
    Lower(body) \in {<<105, 110, 102>>, <<105, 110, 102, 105, 110, 105, 116, 121>>}

IsNaN(body) == Lower(body) = <<110, 97, 110>>

\* The str s is a numeral float() accepts.
IsNumeral(s) ==
    /\ UnderscoresBetweenDigits(TransformDecimalAndSpaceToASCII(s))
    /\ LET body == Unsigned(Prepared(s))
       IN  IsInfinity(body) \/ IsNaN(body) \/ IsDecimalNumeral(body)

\* The natural a sequence of ASCII digits writes, after the natural acc.
RECURSIVE ParseDigits(_, _, _)
ParseDigits(s, i, acc) ==
    LET next == BnAdd(BnMulSmall(acc, 10), BnFromInt(s[i] - 48))
    IN  IF i > Len(s) THEN acc
        ELSE IF Len(next) < 0 THEN acc
        ELSE ParseDigits(s, i + 1, next)

\* The exponent a sequence of ASCII digits writes, capped at 100000: every
\* exponent from there on gives the same double (zero or an infinity).
RECURSIVE ParseExponent(_, _, _)
ParseExponent(s, i, acc) ==
    IF i > Len(s) THEN acc
    ELSE ParseExponent(s, i + 1, Min(100000, 10 * acc + (s[i] - 48)))

\* The double a numeral s writes.
NumeralValue(s) ==
    LET t == Prepared(s)
        neg == t[1] = 45
        body == Unsigned(t)
        p == NumeralParts(body)
        x == ParseExponent(p.exp, 1, 0)
    IN  IF IsInfinity(body) THEN Inf(neg)
        ELSE IF IsNaN(body) THEN NaN
        ELSE FromDecimal(neg, ParseDigits(p.int \o p.frac, 1, <<>>),
                         (IF p.exp_neg THEN -x ELSE x) - Len(p.frac))

\* float(v): an int or a float converts to its double, a str is parsed or
\* raises ValueError, None raises TypeError.  v is [num |-> n], a double,
\* [text |-> <<code points>>] or None.
ToFloat(v) ==
    IF v = None THEN [raised |-> "TypeError", value |-> NaN]
    ELSE IF "num" \in DOMAIN v THEN [raised |-> "none", value |-> FromInt(v.num)]
    ELSE IF "kind" \in DOMAIN v THEN [raised |-> "none", value |-> v]
    ELSE IF IsNumeral(v.text) THEN [raised |-> "none", value |-> NumeralValue(v.text)]
    ELSE [raised |-> "ValueError", value |-> NaN]

\* w in s, of two str: w is a substring of s.
Contains(s, w) ==
    \E i \in 0..(Len(s) - Len(w)) : \A k \in 1..Len(w) : s[i + k] = w[k]


-----------------------------------------------------------------------------
(* Inputs.  A number given as an int is [num |-> n]; a str that is parsed  *)
(* or searched is Str(<<code points>>); a str that is only compared (a     *)
(* dict key, a country) is a string.                                       *)

\* 'Mobile'
Mobile == <<77, 111, 98, 105, 108, 101>>

\* 'Android'
Android == <<65, 110, 100, 114, 111, 105, 100>>

\* 'Mozilla/5.0 (Mobile; Android)'
MobileAndroidAgent ==
    Str(<<77, 111, 122, 105, 108, 108, 97, 47, 53, 46, 48, 32, 40, 77, 111, 98,
          105, 108, 101, 59, 32, 65, 110, 100, 114, 111, 105, 100, 41>>)

\* 'Mozilla/5.0 (Windows NT 10.0)'
WindowsAgent ==
    Str(<<77, 111, 122, 105, 108, 108, 97, 47, 53, 46, 48, 32, 40, 87, 105, 110,
          100, 111, 119, 115, 32, 78, 84, 32, 49, 48, 46, 48, 41>>)

test_transaction ==
    [amount |-> [num |-> 1000], type |-> "transfer",
     location |-> [country |-> "NG"],
     deviceInfo |-> [userAgent |-> MobileAndroidAgent]]

test_history ==
    [account_age_days |-> 30, transaction_count |-> 15, avg_amount |-> [num |-> 500],
     recent_tx_count |-> 2, hours_since_last_tx |-> 6]

\* The amounts given as text: 7.5 with Arabic-Indic digits, 'abc', 'inf' and
\* 'nan'.  Two transactions carry a null where a record or a str is read.
Transactions ==
    { test_transaction,
      [amount |-> [num |-> 0]],
      [amount |-> [num |-> 1000], location |-> None],
      [amount |-> [num |-> 1000], deviceInfo |-> [userAgent |-> None]],
      [amount |-> [num |-> -50], location |-> [country |-> "US"],
       deviceInfo |-> [userAgent |-> WindowsAgent]],
      [type |-> "transfer", location |-> EmptyDict],
      [amount |-> Str(<<1639, 46, 1637>>)],
      [amount |-> Str(<<97, 98, 99>>)],
      [amount |-> Str(<<105, 110, 102>>)],
      [amount |-> Str(<<110, 97, 110>>)] }

Histories ==
    { None,
      EmptyDict,
      test_history,
      [account_age_days |-> 0, transaction_count |-> 0, avg_amount |-> [num |-> 2000],
       recent_tx_count |-> 11, hours_since_last_tx |-> 0],
      [recent_tx_count |-> 10, avg_amount |-> [num |-> 0]] }

\* Transactions for the sub-scorers: each way of carrying, or not carrying, a
\* country, with a desktop user agent; and each way of carrying, or not
\* carrying, a user agent, with no location.  A location, a deviceInfo and a
\* userAgent may be null.
Locations ==
    { None, EmptyDict, [country |-> ""], [country |-> "NG"], [country |-> "KE"],
      [country |-> "GH"], [country |-> "ZA"], [country |-> "US"] }

\* '', 'Mozilla/5.0 (Mobile; Android)', 'Mozilla/5.0 (iPhone) Mobile',
\* 'Mozilla/5.0 (Linux; Android 10)', 'Mozilla/5.0 (Windows NT 10.0)',
\* 'mozilla/5.0 (mobile; android)', 'MobileAndroid',
\* 'Mozilla/5.0 Mobile/15E148 Android10' and None.
UserAgents ==
    { Str(<<>>),
      MobileAndroidAgent,
      Str(<<77, 111, 122, 105, 108, 108, 97, 47, 53, 46, 48, 32, 40, 105, 80, 104,
            111, 110, 101, 41, 32, 77, 111, 98, 105, 108, 101>>),
      Str(<<77, 111, 122, 105, 108, 108, 97, 47, 53, 46, 48, 32, 40, 76, 105, 110,
            117, 120, 59, 32, 65, 110, 100, 114, 111, 105, 100, 32, 49, 48, 41>>),
      WindowsAgent,
      Str(<<109, 111, 122, 105, 108, 108, 97, 47, 53, 46, 48, 32, 40, 109, 111, 98,
            105, 108, 101, 59, 32, 97, 110, 100, 114, 111, 105, 100, 41>>),
      Str(<<77, 111, 98, 105, 108, 101, 65, 110, 100, 114, 111, 105, 100>>),
      Str(<<77, 111, 122, 105, 108, 108, 97, 47, 53, 46, 48, 32, 77, 111, 98, 105,
            108, 101, 47, 49, 53, 69, 49, 52, 56, 32, 65, 110, 100, 114, 111, 105,
            100, 49, 48>>),
      None }

SubTransactions ==
    { [amount |-> [num |-> 1000], location |-> l,
       deviceInfo |-> [userAgent |-> WindowsAgent]] : l \in Locations }
    \cup { [amount |-> [num |-> 1000], deviceInfo |-> [userAgent |-> u]] :
              u \in UserAgents }
    \cup { [amount |-> [num |-> 1000]],
           [amount |-> [num |-> 1000], deviceInfo |-> EmptyDict],
           [amount |-> [num |-> 1000], deviceInfo |-> None],
           [amount |-> [num |-> 1000],
            device_info |-> [user_agent |-> MobileAndroidAgent]],
           test_transaction }

SubHistories ==
    { None,
      EmptyDict,
      test_history,
      [account_age_days |-> 30, transaction_count |-> 15, avg_amount |-> [num |-> 500],
       recent_tx_count |-> 10, hours_since_last_tx |-> 6],
      [account_age_days |-> 30, transaction_count |-> 15, avg_amount |-> [num |-> 500],
       recent_tx_count |-> 11, hours_since_last_tx |-> 6],
      [account_age_days |-> 30, transaction_count |-> 15, avg_amount |-> [num |-> 500]] }

\* The transaction and the histories of the source's test.
TestTransactions == { test_transaction }

TestHistories == { None, test_history }

OneHistory == { test_history }

\* Sample values of a Beta draw: every Beta(a, b) has the support (0, 1).
\* 0.1175 is a decimal tie no double holds: its double lies below it, and
\* the double of 1 - 0.1175 above 0.8825.
BetaSupport == { Rat(1175, 10000), Rat(7321, 10000) }

\* One sample, where the value drawn does not matter.
OneSample == { Rat(7321, 10000) }

\* Values predict_proba(...)[0, 1] may take: the ends of [0, 1], the values of
\* the spec's examples, the decimal tie 0.1175, and ProbRadius
\* ten-thousandths around 0.3 and 0.7.
ProbValues ==
    { Rat(n, 10000) : n \in {0, 1175, 4000, 8000, 10000}
                            \cup (3000 - ProbRadius .. 3000 + ProbRadius)
                            \cup (7000 - ProbRadius .. 7000 + ProbRadius) }

\* One member probability, where the probability does not matter.
OneProb == { Rat(4, 10) }

StartInstants == { [weekday |-> 6, hour |-> 23] }

-----------------------------------------------------------------------------
(* The engine's construction and training *)

InitialColumns ==
    << "transaction_amount", "hour_of_day", "day_of_week",
       "user_age_days", "previous_transactions", "avg_transaction_amount",
       "location_risk_score", "device_risk_score", "velocity_score",
       "behavioral_score", "time_since_last_tx", "amount_deviation" >>

\* StandardScaler(): not fitted.
NewScaler == [fitted |-> FALSE, params |-> "none", columns |-> <<>>]

\* The scaler that fit_transform has fitted on the synthetic training data.
TrainedScaler(cols) == [fitted |-> TRUE, params |-> "trained", columns |-> cols]

\* The model dict train_model builds around the scaler sc.
TrainedModel(sc) == [rf |-> "rf@trained", gb |-> "gb@trained", scaler |-> sc]

\* A model file written by an earlier run.
StoredModel ==
    [rf |-> "rf@file", gb |-> "gb@file",
     scaler |-> [fitted |-> TRUE, params |-> "file", columns |-> InitialColumns]]

DiskStates ==
    { [dir |-> TRUE, file |-> "stored", content |-> StoredModel],
      [dir |-> TRUE, file |-> "corrupt", content |-> None],
      [dir |-> TRUE, file |-> "absent", content |-> None],
      [dir |-> FALSE, file |-> "absent", content |-> None] }

\* joblib.load('models/fraud_detection_model.pkl')
joblib_load(d) ==
    CASE d.file = "absent" -> [raised |-> "FileNotFoundError", value |-> None]
      [] d.file = "corrupt" -> [raised |-> "UnpicklingError", value |-> None]
      [] OTHER -> [raised |-> "none", value |-> d.content]

\* joblib.dump(m, 'models/fraud_detection_model.pkl')
joblib_dump(m, d) ==
    IF d.dir
    THEN [raised |-> "none", disk |-> [dir |-> TRUE, file |-> "stored", content |-> m]]
    ELSE [raised |-> "FileNotFoundError", disk |-> d]

\* The calls of np.random in generate_synthetic_data after its seed: nine for
\* the normal samples, nine for the fraud samples, two for derived features.
SyntheticDraws == 20

\* The generator after the draws of generate_synthetic_data, from state g.
after_synthetic_draws(g) == (g + SyntheticDraws) % RngPeriod

\* generate_synthetic_data: np.random.seed(42) and its draws leave the
\* module-level generator in one fixed state.
generate_synthetic_data_rng == after_synthetic_draws(0)

\* The scaler object sc being the one the model dict m holds, m after sc has
\* become sc2.
with_scaler(m, sc, sc2) ==
    IF m # None /\ m.scaler = sc THEN [m EXCEPT !.scaler = sc2] ELSE m

\* train_model run alone: fits self.scaler and the two classifiers on the
\* synthetic data, stores them in self.model, then saves the model.
train_model(sc, cols, d) ==
    LET m == TrainedModel(TrainedScaler(cols))
        saved == joblib_dump(m, d)
    IN  [model |-> m, scaler |-> m.scaler, disk |-> saved.disk, raised |-> saved.raised]

\* The generator after load_or_train_model: training, which follows a
\* FileNotFoundError of the load, reseeds it; a load leaves it alone.
rng_after_construction(g, d) ==
    IF joblib_load(d).raised = "FileNotFoundError"
    THEN generate_synthetic_data_rng
    ELSE g

\* load_or_train_model run alone: the engine's fields and the disk after it,
\* and the exception that leaves it, if any.
load_or_train_model(m0, sc, cols, d) ==
    LET loaded == joblib_load(d)
    IN  CASE loaded.raised = "none" ->
               [model |-> loaded.value, scaler |-> loaded.value.scaler, disk |-> d,
                raised |-> "none"]
          [] loaded.raised = "FileNotFoundError" -> train_model(sc, cols, d)
          [] OTHER -> [model |-> m0, scaler |-> sc, disk |-> d, raised |-> loaded.raised]

-----------------------------------------------------------------------------
(* Feature extraction *)

\* A sub-scorer's outcome: a fixed value, a draw from Beta(a, b), or an
\* exception.
Const(v) == [kind |-> "const", value |-> v, a |-> 0, b |-> 0]

Beta(a, b) == [kind |-> "beta", value |-> Rat(0, 1), a |-> a, b |-> b]

Raise(e) == [kind |-> e, value |-> Rat(0, 1), a |-> 0, b |-> 0]

Raises(dist) == dist.kind \notin {"const", "beta"}

\* The values a sub-scorer's outcome may take, S being the sampled values of a
\* Beta draw.
Support(dist, S) == IF dist.kind = "const" THEN {dist.value} ELSE S

\* transaction_data.get('location', {}) gives a present None, and
\* location.get of None raises AttributeError.
compute_location_risk(transaction_data) ==
    LET location == Get(transaction_data, "location", EmptyDict)
    IN  IF location = None THEN Raise("AttributeError")
        ELSE IF "country" \in DOMAIN location
                /\ location.country \in {"NG", "KE", "GH", "ZA"}
             THEN Beta(2, 8)
             ELSE Beta(5, 5)

\* device_info.get of a present None raises AttributeError; 'Mobile' in
\* user_agent raises TypeError when user_agent is None.
compute_device_risk(transaction_data) ==
    LET device_info == Get(transaction_data, "deviceInfo", EmptyDict)
        user_agent == Get(device_info, "userAgent", Str(<<>>))
    IN  IF device_info = None THEN Raise("AttributeError")
        ELSE IF user_agent = None THEN Raise("TypeError")
        ELSE IF Contains(user_agent.text, Mobile)
                /\ Contains(user_agent.text, Android)
             THEN Beta(2, 8)
             ELSE Beta(4, 6)

compute_velocity_risk(transaction_data, user_history) ==
    IF ~Truthy(user_history) THEN Const(Rat(1, 10))
    ELSE IF Get(user_history, "recent_tx_count", 0) > 10
         THEN Beta(8, 2)
         ELSE Beta(2, 8)

compute_behavioral_score(transaction_data, user_history) ==
    IF ~Truthy(user_history) THEN Const(Rat(1, 2)) ELSE Beta(6, 4)

\* The four sub-scorer calls of extract_features, in the order it makes them.
SubScorers(transaction_data, user_history) ==
    << compute_location_risk(transaction_data),
       compute_device_risk(transaction_data),
       compute_velocity_risk(transaction_data, user_history),
       compute_behavioral_score(transaction_data, user_history) >>

\* float(transaction_data.get('amount', 0))
amount_of(transaction_data) == ToFloat(Get(transaction_data, "amount", [num |-> 0]))

\* The double a number (an int or a float) enters float arithmetic with.
Number(v) == IF "num" \in DOMAIN v THEN FromInt(v.num) ELSE v

\* An extract_features that takes the deviation before the history branch has
\* resolved the average: from the amount itself.
extract_features_early_deviation(transaction_data, user_history, hour, weekday, draws) ==
    LET amount == amount_of(transaction_data).value
        avg == IF Truthy(user_history) THEN Get(user_history, "avg_amount", amount)
               ELSE amount
    IN  [transaction_amount |-> amount,
         hour_of_day |-> hour,
         day_of_week |-> weekday,
         user_age_days |->
             IF Truthy(user_history) THEN Get(user_history, "account_age_days", 1) ELSE 1,
         previous_transactions |->
             IF Truthy(user_history) THEN Get(user_history, "transaction_count", 0) ELSE 0,
         avg_transaction_amount |-> avg,
         location_risk_score |-> draws.location,
         device_risk_score |-> draws.device,
         velocity_score |-> draws.velocity,
         behavioral_score |-> draws.behavioral,
         time_since_last_tx |->
             IF Truthy(user_history) THEN Get(user_history, "hours_since_last_tx", 24)
             ELSE 24,
         amount_deviation |-> FAbs(FSub(amount, amount))]

\* An extract_features that sets time_since_last_tx only on the history branch.
extract_features_skips_field(transaction_data, user_history, hour, weekday, draws) ==
    LET amount == amount_of(transaction_data).value
        avg == IF Truthy(user_history) THEN Get(user_history, "avg_amount", amount)
               ELSE amount
        common ==
            [transaction_amount |-> amount,
             hour_of_day |-> hour,
             day_of_week |-> weekday,
             user_age_days |->
                 IF Truthy(user_history) THEN Get(user_history, "account_age_days", 1)
                 ELSE 1,
             previous_transactions |->
                 IF Truthy(user_history) THEN Get(user_history, "transaction_count", 0)
                 ELSE 0,
             avg_transaction_amount |-> avg,
             location_risk_score |-> draws.location,
             device_risk_score |-> draws.device,
             velocity_score |-> draws.velocity,
             behavioral_score |-> draws.behavioral,
             amount_deviation |-> FAbs(FSub(amount, Number(avg)))]
    IN  IF Truthy(user_history)
        THEN [k \in DOMAIN common \cup {"time_since_last_tx"} |->
                 IF k = "time_since_last_tx"
                 THEN Get(user_history, "hours_since_last_tx", 24)
                 ELSE common[k]]
        ELSE common

\* extract_features, given the two clock readings and the four draws.  The
\* amount is a float; the average is the history's number (an int here) or
\* that float; their difference is taken in float arithmetic.
extract_features(transaction_data, user_history, hour, weekday, draws) ==
    LET amount == amount_of(transaction_data).value
        avg == IF Truthy(user_history) THEN Get(user_history, "avg_amount", amount)
               ELSE amount
    IN  [transaction_amount |-> amount,
         hour_of_day |-> hour,
         day_of_week |-> weekday,
         user_age_days |->
             IF Truthy(user_history) THEN Get(user_history, "account_age_days", 1) ELSE 1,
         previous_transactions |->
             IF Truthy(user_history) THEN Get(user_history, "transaction_count", 0) ELSE 0,
         avg_transaction_amount |-> avg,
         location_risk_score |-> draws.location,
         device_risk_score |-> draws.device,
         velocity_score |-> draws.velocity,
         behavioral_score |-> draws.behavioral,
         time_since_last_tx |->
             IF Truthy(user_history) THEN Get(user_history, "hours_since_last_tx", 24)
             ELSE 24,
         amount_deviation |-> FAbs(FSub(amount, Number(avg)))]

-----------------------------------------------------------------------------
(* Scoring *)

\* pd.DataFrame([features])[columns]: the row in the order of columns;
\* KeyError when features lacks one of them.
select_columns(features, columns) ==
    IF \A i \in 1..Len(columns) : columns[i] \in DOMAIN features
    THEN [raised |-> "none",
          value |-> [columns |-> columns,
                     row |-> [i \in 1..Len(columns) |-> features[columns[i]]]]]
    ELSE [raised |-> "KeyError", value |-> None]

\* The features that hold a number computed from the amount, which may be an
\* infinity or NaN; the others are ints and draws from (0, 1).
AmountColumns == {"transaction_amount", "avg_transaction_amount", "amount_deviation"}

\* The row of df holds a number of the given kind ("inf" or "nan").
HasKind(df, kind) ==
    \E i \in 1..Len(df.columns) :
        /\ df.columns[i] \in AmountColumns
        /\ Number(df.row[i]).kind = kind

\* A scoring path that calls fit_transform: it refits the scaler on the row.
StandardScaler_fit_transform(sc, df) ==
    [self |-> [fitted |-> TRUE, params |-> "refit", columns |-> df.columns],
     raised |-> "none"]

\* scaler.transform(df): the scaler afterwards and the exception raised, if
\* any.  It needs a fitted scaler, the columns it was fitted on, and no
\* infinity in the row (NaN passes).
StandardScaler_transform(sc, df) ==
    [self |-> sc,
     raised |-> CASE ~sc.fitted -> "NotFittedError"
                  [] df.columns # sc.columns -> "ValueError"
                  [] HasKind(df, "inf") -> "ValueError"
                  [] OTHER -> "none"]

\* clf.predict_proba(feature_scaled)[0, 1] of the member m of the model dict
\* mdl, p being the probability the fitted classifier gives.  None has no
\* members (TypeError); NaN in the row is a ValueError of the gradient
\* boosting classifier, and of the random forest unless the installed
\* release of the library accepts missing values (accepts_nan).
predict_proba(mdl, m, df, p, accepts_nan) ==
    IF mdl = None THEN [raised |-> "TypeError", value |-> Rat(0, 1), clf |-> "none"]
    ELSE IF HasKind(df, "nan") /\ ~(m = "rf" /\ accepts_nan)
    THEN [raised |-> "ValueError", value |-> Rat(0, 1), clf |-> mdl[m]]
    ELSE [raised |-> "none", value |-> p, clf |-> mdl[m]]

\* An ensemble that takes the larger member probability.
ensemble_max(rf_prob, gb_prob) == FMax(ToDouble(rf_prob), ToDouble(gb_prob))

\* (rf_prob + gb_prob) / 2, of two doubles given by their decimals
ensemble_mean(rf_prob, gb_prob) == FHalf(FAdd(ToDouble(rf_prob), ToDouble(gb_prob)))

\* The doubles of the literals 0.3, 0.7 and 1.
LowThreshold == ToDouble(Rat(3, 10))

HighThreshold == ToDouble(Rat(7, 10))

One == FromInt(1)

\* Thresholds whose boundaries belong to the lower range.
decide_right_closed(fraud_probability) ==
    IF ~FLess(LowThreshold, fraud_probability)
    THEN [riskLevel |-> "LOW", decision |-> "APPROVE"]
    ELSE IF ~FLess(HighThreshold, fraud_probability)
         THEN [riskLevel |-> "MEDIUM", decision |-> "REVIEW"]
         ELSE [riskLevel |-> "HIGH", decision |-> "BLOCK"]

\* The risk level and decision of a probability.
decide(fraud_probability) ==
    IF FLess(fraud_probability, LowThreshold)
    THEN [riskLevel |-> "LOW", decision |-> "APPROVE"]
    ELSE IF FLess(fraud_probability, HighThreshold)
         THEN [riskLevel |-> "MEDIUM", decision |-> "REVIEW"]
         ELSE [riskLevel |-> "HIGH", decision |-> "BLOCK"]

\* round(x, 3) of the float64 x that predict_proba's values make, as the
\* decimal it writes.
np_round(x) == Rat(np_round3(x), 1000)

\* round(x, 3) of the float x, as the decimal it writes.
py_round(x) == Rat(py_round3(x), 1000)

\* A result whose confidence is the probability itself.
score_result_raw_confidence(features, fraud_probability) ==
    [riskScore |-> np_round(fraud_probability),
     riskLevel |-> decide(fraud_probability).riskLevel,
     decision |-> decide(fraud_probability).decision,
     confidence |-> np_round(fraud_probability),
     features |->
         [behavioralScore |-> py_round(ToDouble(features.behavioral_score)),
          locationScore |-> py_round(FSub(One, ToDouble(features.location_risk_score))),
          deviceScore |-> py_round(FSub(One, ToDouble(features.device_risk_score))),
          velocityScore |-> py_round(FSub(One, ToDouble(features.velocity_score)))]]

\* A result that shows the location risk without inverting it.
score_result_no_inversion(features, fraud_probability) ==
    [riskScore |-> np_round(fraud_probability),
     riskLevel |-> decide(fraud_probability).riskLevel,
     decision |-> decide(fraud_probability).decision,
     confidence |-> np_round(FMax(fraud_probability, FSub(One, fraud_probability))),
     features |->
         [behavioralScore |-> py_round(ToDouble(features.behavioral_score)),
          locationScore |-> py_round(ToDouble(features.location_risk_score)),
          deviceScore |-> py_round(FSub(One, ToDouble(features.device_risk_score))),
          velocityScore |-> py_round(FSub(One, ToDouble(features.velocity_score)))]]

\* The dict predict_fraud returns (without processingTime and timestamp).
\* The probability is a float64 and 1 - it is one; the sub-scores are floats.
score_result(features, fraud_probability) ==
    [riskScore |-> np_round(fraud_probability),
     riskLevel |-> decide(fraud_probability).riskLevel,
     decision |-> decide(fraud_probability).decision,
     confidence |-> np_round(FMax(fraud_probability, FSub(One, fraud_probability))),
     features |->
         [behavioralScore |-> py_round(ToDouble(features.behavioral_score)),
          locationScore |-> py_round(FSub(One, ToDouble(features.location_risk_score))),
          deviceScore |-> py_round(FSub(One, ToDouble(features.device_risk_score))),
          velocityScore |-> py_round(FSub(One, ToDouble(features.velocity_score)))]]

-----------------------------------------------------------------------------
(* The state machine *)

\* The frame of a caller that is not inside predict_fraud.
IdleFrame ==
    [pc |-> "idle", transaction_data |-> None, user_history |-> None,
     features |-> None, families |-> <<>>, draws |-> <<>>, feature_df |-> None,
     rf_prob |-> None, gb_prob |-> None, rf_clf |-> "none", gb_clf |-> "none",
     fraud_probability |-> None, result |-> None, exc |-> "none"]

\* No call of another public method is running; made counts those made, and
\* drawn the np.random calls a running generate_synthetic_data has made.
IdleAdmin == [pc |-> "idle", op |-> "none", exc |-> "none", made |-> 0, drawn |-> 0]

\* The other public methods of the engine.
AdminOps == {"train_model", "generate_synthetic_data", "load_or_train_model"}

\* FraudDetectionEngine.__init__ up to its call of load_or_train_model.
Init ==
    /\ disk \in DiskStates
    /\ phase = "init"
    /\ model = None
    /\ scaler = NewScaler
    /\ feature_columns = InitialColumns
    /\ now \in StartInstants
    /\ ticks = 0
    /\ rng \in 0..(RngPeriod - 1)
    /\ calls = [c \in Callers |-> IdleFrame]
    /\ admin = IdleAdmin

\* fraud_detector = FraudDetectionEngine(): the rest of the construction, which
\* runs alone while the module is imported.  An exception leaves the module
\* without a fraud_detector.
LoadOrTrainModel ==
    /\ phase = "init"
    /\ LET r == load_or_train_model(model, scaler, feature_columns, disk)
       IN  /\ model' = r.model
           /\ scaler' = r.scaler
           /\ disk' = r.disk
           /\ phase' = IF r.raised = "none" THEN "serving" ELSE "failed"
    /\ rng' = rng_after_construction(rng, disk)
    /\ UNCHANGED <<feature_columns, now, ticks, calls, admin>>

\* The wall clock crosses an hour boundary.
Tick ==
    /\ ticks < MaxTicks
    /\ ticks' = ticks + 1
    /\ now' = IF now.hour = 23
              THEN [weekday |-> (now.weekday + 1) % 7, hour |-> 0]
              ELSE [weekday |-> now.weekday, hour |-> now.hour + 1]
    /\ UNCHANGED <<disk, phase, model, scaler, feature_columns, rng, calls, admin>>

\* analyze_transaction(transaction_data, user_history) enters predict_fraud.
PredictFraud(c, TX, HS) ==
    /\ phase = "serving"
    /\ calls[c].pc = "idle"
    /\ \E tx \in TX, h \in HS :
           calls' = [calls EXCEPT ![c] =
                        [IdleFrame EXCEPT !.pc = "extract",
                                          !.transaction_data = tx,
                                          !.user_history = h]]
    /\ UNCHANGED <<disk, phase, model, scaler, feature_columns, now, ticks, rng, admin>>

\* extract_features, lines 144-148: the amount and the first clock reading.
ExtractBegin(c) ==
    /\ calls[c].pc = "extract"
    /\ LET a == amount_of(calls[c].transaction_data)
       IN  calls' = [calls EXCEPT ![c] =
                        IF a.raised # "none"
                        THEN [@ EXCEPT !.pc = "raised", !.exc = a.raised]
                        ELSE [@ EXCEPT !.pc = "extract_weekday",
                                       !.features = [transaction_amount |-> a.value,
                                                     hour_of_day |-> now.hour]]]
    /\ UNCHANGED <<disk, phase, model, scaler, feature_columns, now, ticks, rng, admin>>

\* extract_features, lines 149-159: the second clock reading and the user
\* features (which the last step assembles, the history being unchanged).
ExtractWeekday(c) ==
    /\ calls[c].pc = "extract_weekday"
    /\ calls' = [calls EXCEPT ![c] =
                    [@ EXCEPT !.pc = "draw",
                              !.features = [transaction_amount |-> @.transaction_amount,
                                            hour_of_day |-> @.hour_of_day,
                                            day_of_week |-> now.weekday]]]
    /\ UNCHANGED <<disk, phase, model, scaler, feature_columns, now, ticks, rng, admin>>

\* extract_features, lines 162-165: the next of the four sub-scorer calls.  A
\* Beta draw takes its value from the module-level generator and advances it;
\* S are the values it may give.  A sub-scorer's exception ends the call.
\* After the fourth, lines 168-171 complete the features.
Draw(c, S) ==
    /\ calls[c].pc = "draw"
    /\ LET f == calls[c]
           dist == SubScorers(f.transaction_data, f.user_history)[Len(f.draws) + 1]
       IN  /\ rng' = IF dist.kind = "beta" THEN (rng + 1) % RngPeriod ELSE rng
           /\ IF Raises(dist)
              THEN calls' = [calls EXCEPT ![c] =
                                [f EXCEPT !.pc = "raised", !.exc = dist.kind,
                                          !.families = Append(@, dist)]]
              ELSE \E v \in Support(dist, S) :
                     LET ds == Append(f.draws, v)
                     IN  calls' = [calls EXCEPT ![c] =
                            IF Len(ds) < 4
                            THEN [f EXCEPT !.families = Append(@, dist), !.draws = ds]
                            ELSE [f EXCEPT
                                    !.pc = "extracted",
                                    !.families = Append(@, dist),
                                    !.draws = ds,
                                    !.features =
                                        extract_features(
                                            f.transaction_data, f.user_history,
                                            f.features.hour_of_day,
                                            f.features.day_of_week,
                                            [location |-> ds[1], device |-> ds[2],
                                             velocity |-> ds[3], behavioral |-> ds[4]])]]
    /\ UNCHANGED <<disk, phase, model, scaler, feature_columns, now, ticks, admin>>

\* predict_fraud, lines 216-220: the row in the order of self.feature_columns,
\* given to self.scaler.transform.
Transform(c) ==
    /\ calls[c].pc = "extracted"
    /\ LET f == calls[c]
           df == select_columns(f.features, feature_columns)
           t == StandardScaler_transform(scaler, df.value)
       IN  IF df.raised # "none"
           THEN /\ calls' = [calls EXCEPT ![c] =
                                [f EXCEPT !.pc = "raised", !.exc = df.raised]]
                /\ scaler' = scaler
           ELSE /\ calls' = [calls EXCEPT ![c] =
                                IF t.raised # "none"
                                THEN [f EXCEPT !.pc = "raised", !.exc = t.raised,
                                               !.feature_df = df.value]
                                ELSE [f EXCEPT !.pc = "scaled",
                                               !.feature_df = df.value]]
                /\ scaler' = t.self
    /\ UNCHANGED <<disk, phase, model, feature_columns, now, ticks, rng, admin>>

\* predict_fraud, line 223: the random forest of self.model gives its
\* probability, one of PR.
PredictRF(c, PR) ==
    /\ calls[c].pc = "scaled"
    /\ \E p \in PR, accepts_nan \in BOOLEAN :
           LET r == predict_proba(model, "rf", calls[c].feature_df, p, accepts_nan)
           IN  calls' = [calls EXCEPT ![c] =
                            IF r.raised # "none"
                            THEN [@ EXCEPT !.pc = "raised", !.exc = r.raised]
                            ELSE [@ EXCEPT !.pc = "rf_done", !.rf_prob = r.value,
                                           !.rf_clf = r.clf]]
    /\ UNCHANGED <<disk, phase, model, scaler, feature_columns, now, ticks, rng, admin>>

\* predict_fraud, lines 224-253: the gradient boosting classifier of
\* self.model gives its probability, one of PR; then the mean, the decision
\* and the result.
PredictGB(c, PR) ==
    /\ calls[c].pc = "rf_done"
    /\ \E p \in PR :
           LET r == predict_proba(model, "gb", calls[c].feature_df, p, FALSE)
               mean == ensemble_mean(calls[c].rf_prob, r.value)
           IN  calls' = [calls EXCEPT ![c] =
                            IF r.raised # "none"
                            THEN [@ EXCEPT !.pc = "raised", !.exc = r.raised]
                            ELSE [@ EXCEPT !.pc = "done", !.gb_prob = r.value,
                                           !.gb_clf = r.clf,
                                           !.fraud_probability = mean,
                                           !.result = score_result(calls[c].features, mean)]]
    /\ UNCHANGED <<disk, phase, model, scaler, feature_columns, now, ticks, rng, admin>>

\* predict_fraud returns, or its exception reaches the caller.
Return(c) ==
    /\ calls[c].pc \in {"done", "raised"}
    /\ calls' = [calls EXCEPT ![c] = IdleFrame]
    /\ UNCHANGED <<disk, phase, model, scaler, feature_columns, now, ticks, rng, admin>>

\* Another thread calls fraud_detector.train_model(),
\* fraud_detector.generate_synthetic_data() or
\* fraud_detector.load_or_train_model() while the engine serves.
CallMethod ==
    /\ phase = "serving"
    /\ admin.pc = "idle"
    /\ admin.made < MaxAdminCalls
    /\ \E op \in AdminOps :
           admin' = [pc |-> IF op = "load_or_train_model" THEN "load" ELSE "seed",
                     op |-> op, exc |-> "none", made |-> admin.made + 1, drawn |-> 0]
    /\ UNCHANGED <<disk, phase, model, scaler, feature_columns, now, ticks, rng, calls>>

\* Another thread constructs a further FraudDetectionEngine(): its fields are
\* its own; what it shares with the serving engine are the model file and the
\* module-level generator.
ConstructEngine ==
    /\ phase = "serving"
    /\ admin.pc = "idle"
    /\ admin.made < MaxAdminCalls
    /\ LET r == load_or_train_model(None, NewScaler, InitialColumns, disk)
       IN  /\ disk' = r.disk
           /\ admin' = [admin EXCEPT !.made = @ + 1, !.op = "FraudDetectionEngine",
                                     !.exc = r.raised]
    /\ rng' = rng_after_construction(rng, disk)
    /\ UNCHANGED <<phase, model, scaler, feature_columns, now, ticks, calls>>

\* generate_synthetic_data, line 38: np.random.seed(42)
Seed ==
    /\ admin.pc = "seed"
    /\ rng' = 0
    /\ admin' = [admin EXCEPT !.pc = "generate"]
    /\ UNCHANGED <<disk, phase, model, scaler, feature_columns, now, ticks, calls>>

\* generate_synthetic_data, lines 43-77: the next of its np.random calls,
\* each a call of its own on the module-level generator; after the last the
\* method returns its data frame (to train_model, when that called it).
Generate ==
    /\ admin.pc = "generate"
    /\ rng' = (rng + 1) % RngPeriod
    /\ admin' = IF admin.drawn + 1 < SyntheticDraws
                THEN [admin EXCEPT !.drawn = @ + 1]
                ELSE [admin EXCEPT !.drawn = 0,
                                   !.pc = IF admin.op = "generate_synthetic_data"
                                          THEN "return" ELSE "fit"]
    /\ UNCHANGED <<disk, phase, model, scaler, feature_columns, now, ticks, calls>>

\* train_model, line 97: self.scaler.fit_transform first resets the scaler,
\* which is the object the model dict holds.
FitBegin ==
    /\ admin.pc = "fit"
    /\ scaler' = NewScaler
    /\ model' = with_scaler(model, scaler, NewScaler)
    /\ admin' = [admin EXCEPT !.pc = "fitted"]
    /\ UNCHANGED <<disk, phase, feature_columns, now, ticks, rng, calls>>

\* train_model, line 97: self.scaler.fit_transform then sets the fitted
\* parameters.
FitEnd ==
    /\ admin.pc = "fitted"
    /\ scaler' = TrainedScaler(feature_columns)
    /\ model' = with_scaler(model, scaler, TrainedScaler(feature_columns))
    /\ admin' = [admin EXCEPT !.pc = "store"]
    /\ UNCHANGED <<disk, phase, feature_columns, now, ticks, rng, calls>>

\* train_model, lines 98-126: the classifiers are fitted and self.model is
\* assigned.
StoreModel ==
    /\ admin.pc = "store"
    /\ model' = TrainedModel(scaler)
    /\ admin' = [admin EXCEPT !.pc = "dump"]
    /\ UNCHANGED <<disk, phase, scaler, feature_columns, now, ticks, rng, calls>>

\* train_model, line 129: joblib.dump
DumpModel ==
    /\ admin.pc = "dump"
    /\ LET saved == joblib_dump(model, disk)
       IN  /\ disk' = saved.disk
           /\ admin' = [admin EXCEPT !.pc = "return", !.exc = saved.raised]
    /\ UNCHANGED <<phase, model, scaler, feature_columns, now, ticks, rng, calls>>

\* load_or_train_model, line 135: self.model = joblib.load(...); a
\* FileNotFoundError goes on to train_model, another exception leaves the
\* method.
LoadModel ==
    /\ admin.pc = "load"
    /\ LET loaded == joblib_load(disk)
       IN  CASE loaded.raised = "none" ->
                  /\ model' = loaded.value
                  /\ admin' = [admin EXCEPT !.pc = "assign_scaler"]
             [] loaded.raised = "FileNotFoundError" ->
                  /\ model' = model
                  /\ admin' = [admin EXCEPT !.pc = "seed"]
             [] OTHER ->
                  /\ model' = model
                  /\ admin' = [admin EXCEPT !.pc = "return", !.exc = loaded.raised]
    /\ UNCHANGED <<disk, phase, scaler, feature_columns, now, ticks, rng, calls>>

\* load_or_train_model, line 136: self.scaler = self.model['scaler']
AssignScaler ==
    /\ admin.pc = "assign_scaler"
    /\ scaler' = model.scaler
    /\ admin' = [admin EXCEPT !.pc = "return"]
    /\ UNCHANGED <<disk, phase, model, feature_columns, now, ticks, rng, calls>>

\* The other public method returns, or its exception reaches its caller.
MethodReturn ==
    /\ admin.pc = "return"
    /\ admin' = [admin EXCEPT !.pc = "idle"]
    /\ UNCHANGED <<disk, phase, model, scaler, feature_columns, now, ticks, rng, calls>>

\* One caller, every transaction and history; one member probability.
Next ==
    \/ LoadOrTrainModel
    \/ Tick
    \/ PredictFraud("c1", Transactions, Histories)
    \/ ExtractBegin("c1")
    \/ ExtractWeekday("c1")
    \/ Draw("c1", BetaSupport)
    \/ Transform("c1")
    \/ PredictRF("c1", OneProb)
    \/ PredictGB("c1", OneProb)
    \/ Return("c1")

Spec == Init /\ [][Next]_vars

\* One caller, the source's test transaction with and without its history;
\* every member probability of ProbValues; the clock stands still.
NextScore ==
    \/ LoadOrTrainModel
    \/ PredictFraud("c1", TestTransactions, TestHistories)
    \/ ExtractBegin("c1")
    \/ ExtractWeekday("c1")
    \/ Draw("c1", OneSample)
    \/ Transform("c1")
    \/ PredictRF("c1", ProbValues)
    \/ PredictGB("c1", ProbValues)
    \/ Return("c1")

SpecScore == Init /\ [][NextScore]_vars

\* Concurrent callers of analyze_transaction and a thread that calls the
\* engine's other public methods, their steps interleaved, within one hour
\* of the clock.
NextConc ==
    \/ LoadOrTrainModel
    \/ \E c \in Callers :
          \/ PredictFraud(c, TestTransactions, OneHistory)
          \/ ExtractBegin(c)
          \/ ExtractWeekday(c)
          \/ Draw(c, OneSample)
          \/ Transform(c)
          \/ PredictRF(c, OneProb)
          \/ PredictGB(c, OneProb)
          \/ Return(c)
    \/ CallMethod
    \/ ConstructEngine
    \/ Seed
    \/ Generate
    \/ FitBegin
    \/ FitEnd
    \/ StoreModel
    \/ DumpModel
    \/ LoadModel
    \/ AssignScaler
    \/ MethodReturn

SpecConc == Init /\ [][NextConc]_vars

\* One caller, the transactions and histories for the sub-scorers; one sample
\* and one member probability.
NextSub ==
    \/ LoadOrTrainModel
    \/ Tick
    \/ PredictFraud("c1", SubTransactions, SubHistories)
    \/ ExtractBegin("c1")
    \/ ExtractWeekday("c1")
    \/ Draw("c1", OneSample)
    \/ Transform("c1")
    \/ PredictRF("c1", OneProb)
    \/ PredictGB("c1", OneProb)
    \/ Return("c1")

SpecSub == Init /\ [][NextSub]_vars

-----------------------------------------------------------------------------
(* The claims *)

\* The decimal x as a count of 1/D (D a multiple of x.den).
InUnits(x, D) == x.num * (D \div x.den)

\* The frames that hold a complete feature dict.
Extracted(c) == calls[c].pc \in {"extracted", "scaled", "rf_done", "done"}

\* C1: the decision step returns (LOW, APPROVE) for p < 0.3, (MEDIUM, REVIEW)
\* for 0.3 <= p < 0.7 and (HIGH, BLOCK) for p >= 0.7, and no other pair.
C1_DecisionThresholds ==
    \A c \in Callers :
        calls[c].pc = "done" =>
            LET p == calls[c].fraud_probability
                got == <<calls[c].result.riskLevel, calls[c].result.decision>>
            IN  /\ FLess(p, LowThreshold) => got = <<"LOW", "APPROVE">>
                /\ ~FLess(p, LowThreshold) /\ FLess(p, HighThreshold)
                       => got = <<"MEDIUM", "REVIEW">>
                /\ ~FLess(p, HighThreshold) => got = <<"HIGH", "BLOCK">>
                /\ got \in {<<"LOW", "APPROVE">>, <<"MEDIUM", "REVIEW">>,
                            <<"HIGH", "BLOCK">>}

\* A call whose probability is exactly 0.3 has been decided MEDIUM.
C1_Witness ==
    \E c \in Callers :
        /\ calls[c].pc = "done"
        /\ calls[c].fraud_probability = LowThreshold
        /\ calls[c].result.riskLevel = "MEDIUM"

\* A transaction whose amount is a number >= 0.
ValidAmount(tx) ==
    /\ "amount" \in DOMAIN tx
    /\ "num" \in DOMAIN tx.amount
    /\ tx.amount.num >= 0

\* C2: a valid transaction (amount >= 0) scored with no history does not
\* raise and gets user_age_days 1, previous_transactions 0,
\* avg_transaction_amount equal to its amount, time_since_last_tx 24 and
\* amount_deviation 0.
C2_ColdStartDefaults ==
    \A c \in Callers :
        (calls[c].pc # "idle" /\ calls[c].user_history = None
            /\ ValidAmount(calls[c].transaction_data)) =>
            /\ calls[c].exc = "none"
            /\ Extracted(c) =>
                   LET f == calls[c].features
                   IN  /\ f.user_age_days = 1
                       /\ f.previous_transactions = 0
                       /\ f.transaction_amount
                              = FromInt(calls[c].transaction_data.amount.num)
                       /\ f.avg_transaction_amount = f.transaction_amount
                       /\ f.time_since_last_tx = 24
                       /\ f.amount_deviation = FromInt(0)

\* C3: with a history record, user_age_days, previous_transactions,
\* avg_transaction_amount and time_since_last_tx are the history's
\* account_age_days, transaction_count, avg_amount and hours_since_last_tx,
\* and amount_deviation is |transaction_amount - avg_transaction_amount| of
\* that average, never negative (amount 1000, avg_amount 500: 500).
C3_HistoryFeatures ==
    \A c \in Callers :
        (Extracted(c) /\ calls[c].user_history # None) =>
            LET f == calls[c].features
                h == calls[c].user_history
                d == FSub(f.transaction_amount, Number(f.avg_transaction_amount))
            IN  /\ "account_age_days" \in DOMAIN h
                       => f.user_age_days = h.account_age_days
                /\ "transaction_count" \in DOMAIN h
                       => f.previous_transactions = h.transaction_count
                /\ "avg_amount" \in DOMAIN h
                       => f.avg_transaction_amount = h.avg_amount
                /\ "hours_since_last_tx" \in DOMAIN h
                       => f.time_since_last_tx = h.hours_since_last_tx
                /\ ~FLess(f.amount_deviation, FromInt(0))
                /\ f.amount_deviation \in {d, FNeg(d)}
                /\ (f.transaction_amount = FromInt(1000)
                    /\ f.avg_transaction_amount = [num |-> 500])
                       => f.amount_deviation = FromInt(500)

\* The source's test transaction (amount 1000) is extracted with its test
\* history (avg_amount 500).
C3_Witness ==
    \E c \in Callers :
        /\ calls[c].pc = "extracted"
        /\ calls[c].user_history = test_history
        /\ calls[c].features.transaction_amount = FromInt(1000)
        /\ calls[c].features.avg_transaction_amount = [num |-> 500]
        /\ calls[c].features.amount_deviation = FromInt(500)

\* C4: a transaction whose amount is missing or negative fails with a
\* validation error: its call returns no ScoreResult.
C4_InvalidAmountRejected ==
    \A c \in Callers :
        calls[c].pc = "done" =>
            /\ "amount" \in DOMAIN calls[c].transaction_data
            /\ ~FLess(calls[c].features.transaction_amount, FromInt(0))

\* The finite double x >= 0 is within 2^-53 of N/D (0 < D <= Base).
NearRatio(x, N, D) ==
    LET k == Max(53, -x.e)
        lhs == BnMulSmall(BnShl(x.m, k + x.e), D)
        rhs == BnShl(BnFromInt(N), k)
        tol == BnShl(BnFromInt(D), k - 53)
    IN  IF BnCmp(lhs, rhs) >= 0
        THEN BnCmp(BnSub(lhs, rhs), tol) <= 0
        ELSE BnCmp(BnSub(rhs, lhs), tol) <= 0

\* C5: the fraud probability is the arithmetic mean of the two member
\* probabilities, as double arithmetic computes it (within 2^-53 of the mean
\* of their decimals), hence in [0, 1]; the members 0.8 and 0.4 give a
\* riskScore, and a confidence, of 0.6.
C5_EnsembleMean ==
    \A c \in Callers :
        calls[c].pc = "done" =>
            LET p == calls[c].fraud_probability
                rf == calls[c].rf_prob
                gb == calls[c].gb_prob
            IN  /\ p.kind = "finite" /\ ~p.neg
                /\ NearRatio(p, InUnits(rf, 10000) + InUnits(gb, 10000), 20000)
                /\ ~FLess(One, p)
                /\ (InUnits(rf, 10) = 8 /\ InUnits(gb, 10) = 4)
                       => /\ calls[c].result.riskScore = [num |-> 3, den |-> 5]
                          /\ calls[c].result.confidence = [num |-> 3, den |-> 5]

\* The members 0.8 and 0.4 have been averaged: to the double next above that
\* of 0.6, reported as 0.6.
C5_Witness ==
    \E c \in Callers :
        /\ calls[c].pc = "done"
        /\ calls[c].rf_prob = [num |-> 4, den |-> 5]
        /\ calls[c].gb_prob = [num |-> 2, den |-> 5]
        /\ FLess(ToDouble([num |-> 3, den |-> 5]), calls[c].fraud_probability)
        /\ calls[c].result.riskScore = [num |-> 3, den |-> 5]

\* C6 as stated: in every result, confidence is max(riskScore, 1 - riskScore)
\* of the reported riskScore.
C6_OfReportedScore ==
    \A c \in Callers :
        calls[c].pc = "done" =>
            LET conf == InUnits(calls[c].result.confidence, 1000)
                score == InUnits(calls[c].result.riskScore, 1000)
            IN  conf = IF score >= 1000 - score THEN score ELSE 1000 - score

\* C6, amended: in every result, confidence is max(p, 1 - p) of the unrounded
\* probability p, rounded to three decimals (so within 0.0005 of it, up to
\* the rounding of the arithmetic); it lies in [0.5, 1] and is within 0.001
\* of max(riskScore, 1 - riskScore) of the reported riskScore.
C6_Confidence ==
    \A c \in Callers :
        calls[c].pc = "done" =>
            LET p == calls[c].fraud_probability
                x == FMax(p, FSub(One, p))
                conf == InUnits(calls[c].result.confidence, 1000)
                score == InUnits(calls[c].result.riskScore, 1000)
                of_score == IF score >= 1000 - score THEN score ELSE 1000 - score
            IN  /\ FLess(FAbs(FSub(ToDouble(calls[c].result.confidence), x)),
                         ToDouble([num |-> 501, den |-> 1000000]))
                /\ 500 <= conf /\ conf <= 1000
                /\ conf - of_score \in {-1, 0, 1}

\* The probability 0.1175 is reported as riskScore 0.118 with confidence
\* 0.883.
C6_Witness ==
    \E c \in Callers :
        /\ calls[c].pc = "done"
        /\ calls[c].fraud_probability = ToDouble([num |-> 47, den |-> 400])
        /\ InUnits(calls[c].result.riskScore, 1000) = 118
        /\ InUnits(calls[c].result.confidence, 1000) = 883

\* C7, as claimed: an engine constructed while the artifact is absent or
\* unreadable never serves.
C7_NoFallbackModel ==
    [][(phase = "init" /\ disk.file # "stored") => phase' # "serving"]_vars

\* C8: once the model is loaded, no step of any interleaving of scoring calls
\* changes the scaler, the classifiers or feature_columns (or the model
\* file): as long as no other method of the engine has been called they are
\* those the construction left.
C8_ArtifactsReadOnly ==
    /\ []((phase = "serving" /\ admin.made = 0) =>
             /\ model = disk.content
             /\ scaler = model.scaler
             /\ feature_columns = InitialColumns)
    /\ [][calls' # calls =>
             /\ model' = model
             /\ scaler' = scaler
             /\ feature_columns' = feature_columns
             /\ disk' = disk]_vars

\* Two calls are in flight at once, one scored and one between its clock
\* readings, and the artifacts are those that were loaded.
C8_Witness ==
    /\ calls["c1"].pc = "done"
    /\ calls["c2"].pc = "extract_weekday"
    /\ admin.made = 0
    /\ scaler = model.scaler
    /\ model = disk.content

\* C9, as claimed: the displayed location, device and velocity scores are
\* 1 minus the feature vector's risk scores and the displayed behavioral score
\* is the feature vector's.
C9_DisplayExact ==
    \A c \in Callers :
        calls[c].pc = "done" =>
            LET f == calls[c].features
                shown == calls[c].result.features
            IN  /\ InUnits(shown.locationScore, 10000)
                       = 10000 - InUnits(f.location_risk_score, 10000)
                /\ InUnits(shown.deviceScore, 10000)
                       = 10000 - InUnits(f.device_risk_score, 10000)
                /\ InUnits(shown.velocityScore, 10000)
                       = 10000 - InUnits(f.velocity_score, 10000)
                /\ shown.behavioralScore = f.behavioral_score

\* x, a count of thousandths, is y, a count of ten-thousandths, rounded.
Rounds(x, y) == 10 * x - y <= 5 /\ y - 10 * x <= 5

\* C9, amended: the displayed location, device and velocity scores are
\* 1 minus the feature vector's risk scores rounded to three decimals, the
\* displayed behavioral score is the feature vector's rounded to three
\* decimals, and the vector given to the scaler holds the scores as the
\* sub-scorers returned them.
C9_DisplayRounded ==
    \A c \in Callers :
        calls[c].pc = "done" =>
            LET f == calls[c].features
                shown == calls[c].result.features
                row == calls[c].feature_df.row
                tx == calls[c].transaction_data
                h == calls[c].user_history
            IN  /\ Rounds(InUnits(shown.locationScore, 1000),
                          10000 - InUnits(f.location_risk_score, 10000))
                /\ Rounds(InUnits(shown.deviceScore, 1000),
                          10000 - InUnits(f.device_risk_score, 10000))
                /\ Rounds(InUnits(shown.velocityScore, 1000),
                          10000 - InUnits(f.velocity_score, 10000))
                /\ Rounds(InUnits(shown.behavioralScore, 1000),
                          InUnits(f.behavioral_score, 10000))
                /\ row[7] \in Support(compute_location_risk(tx), BetaSupport)
                /\ row[8] \in Support(compute_device_risk(tx), BetaSupport)
                /\ row[9] \in Support(compute_velocity_risk(tx, h), BetaSupport)
                /\ row[10] \in Support(compute_behavioral_score(tx, h), BetaSupport)
                /\ <<row[7], row[8], row[9], row[10]>>
                       = <<f.location_risk_score, f.device_risk_score,
                           f.velocity_score, f.behavioral_score>>

\* A location risk of 0.1175 was scored and is displayed as 0.883, next to a
\* behavioral score of 0.1175 displayed as 0.117 and a velocity risk of 0.1
\* displayed as 0.9.
C9_Witness ==
    \E c \in Callers :
        /\ calls[c].pc = "done"
        /\ calls[c].feature_df.row[7] = [num |-> 47, den |-> 400]
        /\ InUnits(calls[c].result.features.locationScore, 1000) = 883
        /\ calls[c].features.velocity_score = [num |-> 1, den |-> 10]
        /\ InUnits(calls[c].result.features.velocityScore, 1000) = 900

\* C10: with or without history, extract_features produces every one of the
\* 12 fields, and the vector given to the normalizer has exactly these fields
\* in the order of feature_columns.
C10_FixedOrderVector ==
    LET order == << "transaction_amount", "hour_of_day", "day_of_week",
                    "user_age_days", "previous_transactions",
                    "avg_transaction_amount", "location_risk_score",
                    "device_risk_score", "velocity_score", "behavioral_score",
                    "time_since_last_tx", "amount_deviation" >>
    IN  /\ feature_columns = order
        /\ \A c \in Callers :
               /\ calls[c].exc # "KeyError"
               /\ Extracted(c) =>
                      DOMAIN calls[c].features = {order[i] : i \in 1..12}
               /\ calls[c].pc = "done" =>
                      /\ calls[c].feature_df.columns = order
                      /\ DOMAIN calls[c].feature_df.row = 1..12
                      /\ \A i \in 1..12 :
                             calls[c].feature_df.row[i] = calls[c].features[order[i]]

\* A call without history and a 12-field vector has been scored.
C10_Witness ==
    \E c \in Callers :
        /\ calls[c].pc = "done"
        /\ ~Truthy(calls[c].user_history)
        /\ Len(calls[c].feature_df.row) = 12
        /\ calls[c].feature_df.row[11] = 24

\* The user agent a transaction carries as deviceInfo.userAgent, as its code
\* points; none when it carries no such field.
UserAgentText(tx) ==
    IF "deviceInfo" \in DOMAIN tx /\ "userAgent" \in DOMAIN tx.deviceInfo
       /\ tx.deviceInfo.userAgent # None
    THEN tx.deviceInfo.userAgent.text
    ELSE <<>>

\* The text w occurs in the text s.
Occurs(w, s) == \E i \in 1..(Len(s) - Len(w) + 1) : SubSeq(s, i, i + Len(w) - 1) = w

\* The frames in which the i-th sub-scorer (1 location, 2 device, 3 velocity,
\* 4 behavioral) has returned.
Scored(c, i) == Len(calls[c].families) >= i

\* C11 as stated: the device risk is a Beta(2, 8) draw when the user agent
\* indicates a mobile client or an Android client (holds 'Mobile' or
\* 'Android'), and a Beta(4, 6) draw otherwise.
C11_MobileOrAndroid ==
    \A c \in Callers :
        Scored(c, 2) =>
            LET ua == UserAgentText(calls[c].transaction_data)
            IN  calls[c].families[2] =
                    IF Occurs(<<77, 111, 98, 105, 108, 101>>, ua)
                       \/ Occurs(<<65, 110, 100, 114, 111, 105, 100>>, ua)
                    THEN [kind |-> "beta", value |-> [num |-> 0, den |-> 1],
                          a |-> 2, b |-> 8]
                    ELSE [kind |-> "beta", value |-> [num |-> 0, den |-> 1],
                          a |-> 4, b |-> 6]

\* The history h records more than 10 recent transactions.
HighVelocity(h) == "recent_tx_count" \in DOMAIN h /\ h.recent_tx_count > 10

\* C12 as stated: the velocity risk is the fixed 0.1 when no history is
\* supplied; for every supplied history it is a draw, from Beta(8, 2) when
\* recent_tx_count > 10 and from Beta(2, 8) otherwise.
C12_SuppliedHistoryDraws ==
    \A c \in Callers :
        Scored(c, 3) =>
            LET h == calls[c].user_history
                dist == calls[c].families[3]
            IN  IF h = None
                THEN dist.kind = "const" /\ dist.value = [num |-> 1, den |-> 10]
                ELSE /\ dist.kind = "beta"
                     /\ HighVelocity(h) => dist.a = 8 /\ dist.b = 2
                     /\ ~HighVelocity(h) => dist.a = 2 /\ dist.b = 8

\* C13: the location risk is a Beta(2, 8) draw exactly when the transaction's
\* location.country is one of NG, KE, GH, ZA, and a Beta(5, 5) draw for every
\* other country, an empty one and an absent one.
C13_LocationFamilies ==
    \A c \in Callers :
        Scored(c, 1) =>
            LET tx == calls[c].transaction_data
                listed == /\ "location" \in DOMAIN tx
                          /\ "country" \in DOMAIN tx.location
                          /\ \/ tx.location.country = "NG"
                             \/ tx.location.country = "KE"
                             \/ tx.location.country = "GH"
                             \/ tx.location.country = "ZA"
                dist == calls[c].families[1]
            IN  /\ dist.kind = "beta"
                /\ listed => dist.a = 2 /\ dist.b = 8
                /\ ~listed => dist.a = 5 /\ dist.b = 5

\* C14: no call with a sparse or partial input raises, and the missing or
\* empty part is scored by the default branch: a transaction without a
\* country (no location, an empty location, an empty country) gets a
\* Beta(5, 5) location risk, one without a user agent (no deviceInfo, an
\* empty deviceInfo, an empty or null userAgent) a Beta(4, 6) device risk,
\* and a history record without recent_tx_count a Beta(2, 8) velocity risk.
C14_SparseInputScored ==
    \A c \in Callers :
        LET tx == calls[c].transaction_data
            h == calls[c].user_history
        IN  /\ calls[c].pc # "raised"
            /\ Scored(c, 1)
                  /\ ("location" \notin DOMAIN tx
                      \/ "country" \notin DOMAIN tx.location
                      \/ tx.location.country = "")
                  => /\ calls[c].families[1].kind = "beta"
                     /\ calls[c].families[1].a = 5
                     /\ calls[c].families[1].b = 5
            /\ Scored(c, 2) /\ UserAgentText(tx) = <<>>
                  => /\ calls[c].families[2].kind = "beta"
                     /\ calls[c].families[2].a = 4
                     /\ calls[c].families[2].b = 6
            /\ Scored(c, 3) /\ h # None /\ "recent_tx_count" \notin DOMAIN h
                  => /\ calls[c].families[3].kind = "beta"
                     /\ calls[c].families[3].a = 2
                     /\ calls[c].families[3].b = 8

\* C15: the generator a call draws from is its own: while a call is between
\* its sub-scorer draws and takes no step itself, no step of another call,
\* and no training-data generation, changes the state of the generator its
\* next draw will read.
C15_GeneratorPerCall ==
    [][\A c \in Callers :
            (calls[c].pc = "draw" /\ calls'[c] = calls[c]) => rng' = rng]_vars

\* C16: in every result the reported riskScore, which is the probability
\* rounded to three decimals, agrees with the reported level and decision: a
\* riskScore below 0.3 comes with (LOW, APPROVE), one of at least 0.3 and
\* below 0.7 with (MEDIUM, REVIEW), one of 0.7 or more with (HIGH, BLOCK).
C16_ReportedScoreAgrees ==
    \A c \in Callers :
        calls[c].pc = "done" =>
            LET res == calls[c].result
                score == InUnits(res.riskScore, 1000)
            IN  /\ score < 300
                      => res.riskLevel = "LOW" /\ res.decision = "APPROVE"
                /\ score >= 300 /\ score < 700
                      => res.riskLevel = "MEDIUM" /\ res.decision = "REVIEW"
                /\ score >= 700
                      => res.riskLevel = "HIGH" /\ res.decision = "BLOCK"

\* The instant one hour before t.
HourBefore(t) ==
    IF t.hour = 0
    THEN [weekday |-> (t.weekday + 6) % 7, hour |-> 23]
    ELSE [weekday |-> t.weekday, hour |-> t.hour - 1]

RECURSIVE HoursBefore(_, _)
HoursBefore(t, k) == IF k = 0 THEN t ELSE HoursBefore(HourBefore(t), k - 1)

\* C17: the hour_of_day and the day_of_week of one extract_features call are
\* those of one instant the clock has shown, also when the clock advances
\* during the call: never the hour of one day with the weekday of the next.
C17_SameInstant ==
    \A c \in Callers :
        "day_of_week" \in DOMAIN calls[c].features =>
            [weekday |-> calls[c].features.day_of_week,
             hour |-> calls[c].features.hour_of_day]
                \in {HoursBefore(now, k) : k \in 0..ticks}

====
